---------------------------- MODULE Spec2Model ----------------------------
(***************************************************************************)
(* Model of the amp-search-tool backend relay: the Express handlers        *)
(* POST /agent, POST /retrieve, GET /health and the 404 handler            *)
(* (src/unnamed/part_000), the sanitizers and the earlier POST /query      *)
(* handler (src/unnamed/part_001), the earlier POST /openai handler        *)
(* (src/index.js), the Bedrock agent client and its run-directly block     *)
(* (src/agent.js) and the Bedrock retrieve-and-generate client with its    *)
(* citation resolution (src/retrieval.js).                                 *)
(*                                                                         *)
(* Representation of JavaScript values.                                    *)
(*   - A JS value is a tagged record: JsUndefined, JsString(s), JsNumber.  *)
(*   - A prompt string is run-length encoded: a sequence of runs           *)
(*     [c |-> char, n |-> count], count >= 1, adjacent runs of different   *)
(*     characters.  "aaa<" is <<[c |-> "a", n |-> 3], [c |-> "<", n |-> 1]>>*)
(*     This keeps the program's length limit of 2048 as it is in the code. *)
(*   - A session identifier and a decoded completion are plain sequences   *)
(*     of one-character strings.                                           *)
(*   - A storage URI is a sequence of tokens: "/" or a maximal run of      *)
(*     non-slash characters ("s3:", "bucket", "key").                      *)
(***************************************************************************)
EXTENDS Integers, Sequences, FiniteSets, TLC

VARIABLES
  pc,          \* position of the request's handler
  req,         \* the HTTP request being handled: method, route, body fields
  responses,   \* the HTTP responses sent for the request, in order
  effects,     \* calls made for the request: sanitize, upstream, storage
  call,        \* the arguments of invokeBedrockAgent / invokeBedrockRetrieval
  upstreamReq, \* the command sent to the upstream inference service
  reply,       \* the upstream's reply (retrieval) once it has settled
  delivered,   \* the stream events consumed so far (agent)
  completion,  \* the completion text accumulated so far (agent)
  slots,       \* the signed-URL promise of every reference: <<ci, ri>> -> state
  awaited,     \* the promise Promise.all(citations.map(...)) the retrieval awaits
  ret,         \* how invokeBedrockAgent / invokeBedrockRetrieval ended
  fnIn,        \* input of the pure function under check
  fnOut        \* results of applying the pure function, in order

vars == <<pc, req, responses, effects, call, upstreamReq, reply, delivered,
          completion, slots, awaited, ret, fnIn, fnOut>>

----------------------------------------------------------------------------
(* Bounds of the model *)

\* runs of a run-length encoded prompt in the sanitizer's specification
MaxRuns == 3
\* chunk events the upstream agent streams before it ends or fails
MaxChunks == 2
\* citations of one upstream retrieval reply
MaxCitations == 2
\* references of one upstream retrieval reply, over all its citations
MaxRefs == 3

(* Program constants *)

\* sanitizedPrompt.length > 2048
MAX_PROMPT_LENGTH == 2048
\* getSignedUrl(..., { expiresIn: 3600 })
EXPIRES_IN == 3600
\* error?.code || 500, res.status(500), res.status(400), default status 200
STATUS_ERROR == 500
STATUS_BAD_REQUEST == 400
STATUS_OK == 200
\* res.status(404)
STATUS_NOT_FOUND == 404

----------------------------------------------------------------------------
(* JavaScript values *)

JsUndefined == [type |-> "undefined"]
JsNull == [type |-> "null"]
JsString(s) == [type |-> "string", value |-> s]
JsNumber(k) == [type |-> "number", num |-> k]

IsString(v) == v.type = "string"

\* JS truthiness, as used by `!message`, `if (sessionId)` and `error?.code || 500`
Truthy(v) ==
  CASE v.type = "undefined" -> FALSE
    [] v.type = "null" -> FALSE
    [] v.type = "string" -> v.value # <<>>
    [] v.type = "number" -> v.num # 0
    [] OTHER -> TRUE

\* an Error object: name, message and the optional code property
MkError(name, message, code) ==
  [type |-> "error", name |-> name, message |-> message, code |-> code]
TypeError(message) == MkError("TypeError", message, JsUndefined)

Threw(err) == [ok |-> FALSE, error |-> err]
Returned(v) == [ok |-> TRUE, value |-> v]

----------------------------------------------------------------------------
(* Run-length encoded strings *)

Run(c, n) == [c |-> c, n |-> n]

\* number of characters of a run-length encoded string: String.prototype.length
RECURSIVE StrLen(_)
StrLen(s) == IF s = <<>> THEN 0 ELSE Head(s).n + StrLen(Tail(s))

\* append a run to a canonical string, merging it with an equal last character
AppendRun(s, r) ==
  IF r.n = 0 THEN s
  ELSE IF s # <<>> /\ s[Len(s)].c = r.c
       THEN [s EXCEPT ![Len(s)] = Run(r.c, s[Len(s)].n + r.n)]
       ELSE Append(s, r)

\* concatenation of two canonical strings
RECURSIVE Concat(_, _)
Concat(s, t) == IF t = <<>> THEN s ELSE Concat(AppendRun(s, Head(t)), Tail(t))

\* n copies of the string t
RECURSIVE Repeat(_, _)
Repeat(t, n) == IF n = 0 THEN <<>> ELSE Concat(t, Repeat(t, n - 1))

WhiteSpace == {" ", "\t", "\n"}

RECURSIVE TrimStart(_)
TrimStart(s) ==
  IF s # <<>> /\ Head(s).c \in WhiteSpace THEN TrimStart(Tail(s)) ELSE s

RECURSIVE TrimEnd(_)
TrimEnd(s) ==
  IF s # <<>> /\ s[Len(s)].c \in WhiteSpace
  THEN TrimEnd(SubSeq(s, 1, Len(s) - 1))
  ELSE s

\* String.prototype.trim
Trim(s) == TrimEnd(TrimStart(s))

LowerOf(c) ==
  CASE c = "A" -> "a"
    [] c = "B" -> "b"
    [] c = "H" -> "h"
    [] OTHER -> c

\* String.prototype.toLowerCase
RECURSIVE ToLowerCase(_)
ToLowerCase(s) ==
  IF s = <<>> THEN <<>>
  ELSE Concat(<<Run(LowerOf(Head(s).c), Head(s).n)>>, ToLowerCase(Tail(s)))

\* String.prototype.replace(/[set]/g, ''): every character of `set` removed
RECURSIVE RemoveChars(_, _)
RemoveChars(s, set) ==
  IF s = <<>> THEN <<>>
  ELSE IF Head(s).c \in set
       THEN RemoveChars(Tail(s), set)
       ELSE Concat(<<Head(s)>>, RemoveChars(Tail(s), set))

\* String.prototype.replace(/ch/g, repl): every ch replaced by the string repl
RECURSIVE ReplaceAll(_, _, _)
ReplaceAll(s, ch, repl) ==
  IF s = <<>> THEN <<>>
  ELSE Concat(IF Head(s).c = ch THEN Repeat(repl, Head(s).n) ELSE <<Head(s)>>,
              ReplaceAll(Tail(s), ch, repl))

\* the characters of s, as a set
CharsOf(s) == {s[i].c : i \in DOMAIN s}

SpecialChars == {"<", ">", ";", "&", "|"}

AmpEntity == <<Run("&", 1), Run("a", 1), Run("m", 1), Run("p", 1), Run(";", 1)>>
LtEntity == <<Run("&", 1), Run("l", 1), Run("t", 1), Run(";", 1)>>
GtEntity == <<Run("&", 1), Run("g", 1), Run("t", 1), Run(";", 1)>>

----------------------------------------------------------------------------
(* Sanitizers: src/unnamed/part_001 (utils.js) *)

\* the chain of string methods of sanitize, without the length check
CleanPrompt(s) ==
  ReplaceAll(
    ReplaceAll(
      ReplaceAll(RemoveChars(ToLowerCase(Trim(s)), SpecialChars), "&", AmpEntity),
      "<", LtEntity),
    ">", GtEntity)

\* sanitize whose trim removes one blank at each end instead of all of them
TrimOne(s) ==
  LET dropFirst == IF s # <<>> /\ Head(s).c \in WhiteSpace
                   THEN Concat(<<>>, <<Run(Head(s).c, Head(s).n - 1)>> \o Tail(s))
                   ELSE s
  IN IF dropFirst # <<>> /\ dropFirst[Len(dropFirst)].c \in WhiteSpace
     THEN Concat(SubSeq(dropFirst, 1, Len(dropFirst) - 1),
                 <<Run(dropFirst[Len(dropFirst)].c, dropFirst[Len(dropFirst)].n - 1)>>)
     ELSE dropFirst

SanitizeTrimOne(prompt) ==
  IF ~IsString(prompt)
  THEN Threw(TypeError("prompt.trim is not a function"))
  ELSE LET sanitizedPrompt == RemoveChars(ToLowerCase(TrimOne(prompt.value)), SpecialChars)
       IN IF StrLen(sanitizedPrompt) > MAX_PROMPT_LENGTH
          THEN Threw(MkError("Error", "Prompt is too long", JsUndefined))
          ELSE Returned(JsString(sanitizedPrompt))

\* sanitize(prompt): the cleaned prompt, or the error it throws
Sanitize(prompt) ==
  IF ~IsString(prompt)
  THEN Threw(TypeError("prompt.trim is not a function"))
  ELSE LET sanitizedPrompt == CleanPrompt(prompt.value)
       IN IF StrLen(sanitizedPrompt) > MAX_PROMPT_LENGTH
          THEN Threw(MkError("Error", "Prompt is too long", JsUndefined))
          ELSE Returned(JsString(sanitizedPrompt))

SessionIdChars == {"a", "Z", "1", ".", "_", ":", "-"}

\* keep the characters of a plain character sequence that are in `set`
RECURSIVE KeepChars(_, _)
KeepChars(s, set) ==
  IF s = <<>> THEN <<>>
  ELSE IF Head(s) \in set
       THEN <<Head(s)>> \o KeepChars(Tail(s), set)
       ELSE KeepChars(Tail(s), set)

\* sanitizeSessionID(input): input.replace(/[^0-9a-zA-Z._:-]/g, '')
SanitizeSessionID(input) ==
  IF ~IsString(input)
  THEN Threw(TypeError("Cannot read properties of undefined (reading 'replace')"))
  ELSE Returned(JsString(KeepChars(input.value, SessionIdChars)))

----------------------------------------------------------------------------
(* Sample inputs of the server *)

MsgHello == <<Run(" ", 1), Run("H", 1), Run("<", 1), Run("a", 2)>>
MsgBlank == <<Run(" ", 2)>>
MsgStrippedToLimit == <<Run("<", 1), Run("a", MAX_PROMPT_LENGTH)>>
MsgTooLong == <<Run("a", MAX_PROMPT_LENGTH + 1)>>
MsgTooLongRaw == <<Run("A", MAX_PROMPT_LENGTH), Run("|", 1), Run("a", 1)>>

\* the `message` property of a request body: absent, empty, not a string, a string
Messages ==
  {JsUndefined, JsString(<<>>), JsNumber(7), JsString(MsgHello), JsString(MsgBlank),
   JsString(MsgStrippedToLimit), JsString(MsgTooLong), JsString(MsgTooLongRaw)}

\* req.body after express.json(): an object holding the properties of the JSON
\* body, or undefined when the request has no JSON body and the body parser
\* leaves req.body unset (the parser of Express 5; that of Express 4 sets {})
NoBody == JsUndefined
AgentBody(message) == [type |-> "object", message |-> message]
RetrieveBody(message, session_id) ==
  [type |-> "object", message |-> message, session_id |-> session_id]
PromptBody(prompt) == [type |-> "object", prompt |-> prompt]

\* const { name } = body, for a body that is an object; no property for none
Destructured(body, name) ==
  IF body.type = "object" THEN body[name] ELSE JsUndefined

\* the `session_id` property of a request body
SessionIds ==
  {JsUndefined, JsString(<<>>), JsString(<<"a", "-", "1">>),
   JsString(<<"a", " ", "$", "1">>)}

\* crypto.randomBytes(16).toString('hex')
Uuids == {<<"0", "f">>, <<"9", "c">>}

\* what client.send, the chunk stream or getSignedUrl can reject with
UpstreamErrors ==
  {MkError("ServiceException", "throttled", JsNumber(429)),
   MkError("ServiceException", "denied", JsUndefined),
   MkError("Error", "unavailable", JsNumber(503)),
   MkError("Error", "timeout", JsUndefined),
   MkError("Error", "socket hang up", JsString(<<"E", "C", "O", "N", "N">>)),
   JsNull}

\* session identifiers the upstream assigns to a request that carries none
AssignedSessionIds == {JsString(<<"Z", "1">>)}

\* the bodies of the requests of the server's specification
AgentBodies == {NoBody} \cup {AgentBody(message) : message \in Messages}
RetrieveBodies ==
  {NoBody} \cup {RetrieveBody(message, session_id) :
                   message \in Messages, session_id \in SessionIds}
PromptBodies == {NoBody} \cup {PromptBody(prompt) : prompt \in Messages}

----------------------------------------------------------------------------
(* HTTP responses: res.status(...).send(...) / res.json(...) *)

TextBody(text) == [kind |-> "text", text |-> text]
JsonBody(value) == [kind |-> "json", value |-> value]
ErrorBody(message) == [kind |-> "json", error |-> message]
\* res.send(undefined): a response without a body
EmptyBody == [kind |-> "empty"]

Response(status, body) == [status |-> status, body |-> body]

\* a status code http.ServerResponse accepts (writeHead: 100..999)
ValidStatus(v) == v.type = "number" /\ v.num >= 100 /\ v.num <= 999

NoValue == [type |-> "none"]

\* the global error handler: res.status(500).send({ error: 'Internal Server Error' })
GlobalErrorHandler == Response(STATUS_ERROR, ErrorBody("Internal Server Error"))

\* the framework's own error handler, for a server that registers none: 500
\* with an HTML page
DefaultErrorHandler == Response(STATUS_ERROR, [kind |-> "html"])

----------------------------------------------------------------------------
(* Agent client: src/agent.js *)

\* TextDecoder("utf-8").decode(bytes), over the bytes 0x68 'h', 0x69 'i' and the
\* two bytes 0xC3 0xA9 of U+00E9; an ill-formed byte decodes to U+FFFD
RECURSIVE DecodeUtf8(_)
DecodeUtf8(bytes) ==
  IF bytes = <<>> THEN <<>>
  ELSE IF Head(bytes) < 128
       THEN <<IF Head(bytes) = 104 THEN "h" ELSE IF Head(bytes) = 105 THEN "i" ELSE "x">>
            \o DecodeUtf8(Tail(bytes))
       ELSE IF Head(bytes) = 195 /\ Len(bytes) >= 2 /\ bytes[2] = 169
            THEN <<"U+00E9">> \o DecodeUtf8(Tail(Tail(bytes)))
            ELSE <<"U+FFFD">> \o DecodeUtf8(Tail(bytes))

\* the payloads of the chunk events of a stream
ChunkPayloads == {<<104>>, <<105>>, <<195>>, <<169>>, <<104, 195, 169>>}

ChunkEvent(bytes) == [chunk |-> [type |-> "chunk", bytes |-> bytes]]
\* a stream event that is not a chunk (a trace event): chunkEvent.chunk is undefined
TraceEvent == [chunk |-> JsUndefined]

\* the InvokeAgentCommand of invokeBedrockAgent
InvokeAgentCommand(prompt, sessionId) ==
  [command |-> "InvokeAgent", sessionId |-> sessionId, inputText |-> prompt]

\* completion += decodedResponse, with the new text put in front
AccumulateInFront(text, chunk) == DecodeUtf8(chunk.bytes) \o text

\* the body of the for-await loop: completion += decode(chunk.bytes)
Accumulate(text, chunk) == text \o DecodeUtf8(chunk.bytes)

\* return { sessionId: sessionId, completion }
AgentResult(sessionId, text) == [sessionId |-> sessionId, completion |-> text]

\* the /agent handler's continuation with a rejected call: the handler never sees
\* the failure, it sends the (absent) completion
AgentHandlerSendsAnyway(result) ==
  IF result.type = "undefined"
  THEN Response(STATUS_OK, TextBody(<<>>))
  ELSE Response(STATUS_OK, TextBody(result.value.completion))

\* the /agent handler after `await invokeBedrockAgent`: res.send(response.completion),
\* or the catch block when reading .completion of undefined throws
AgentHandlerAfterInvoke(result) ==
  IF result.type = "undefined"
  THEN Response(STATUS_ERROR, ErrorBody("Failed to connect to external API"))
  ELSE Response(STATUS_OK, TextBody(result.value.completion))

\* what invokeBedrockAgent returns: the result, or undefined after its catch block
AgentReturnedUndefined == [type |-> "undefined"]
AgentReturnedValue(v) == [type |-> "object", value |-> v]

\* POST /agent: the destructuring of req.body, validation, sanitization and the
\* upstream send.  Destructuring an undefined req.body throws outside the try
\* block: the rejection of the async handler goes to the global error handler.
PostAgent(body, uuid) ==
  LET message == Destructured(body, "message")
  IN
  /\ pc = "idle"
  /\ req' = [method |-> "POST", route |-> "/agent", body |-> body,
             message |-> message, session_id |-> JsUndefined]
  /\ IF body.type = "undefined"
     THEN /\ responses' = <<GlobalErrorHandler>>
          /\ pc' = "done"
          /\ UNCHANGED <<effects, call, upstreamReq>>
     ELSE IF ~Truthy(message)
     THEN /\ responses' = <<Response(STATUS_BAD_REQUEST, ErrorBody("Prompt is required"))>>
          /\ pc' = "done"
          /\ UNCHANGED <<effects, call, upstreamReq>>
     ELSE LET sanitizedPrompt == Sanitize(message)
          IN IF ~sanitizedPrompt.ok
             THEN /\ responses' = <<Response(STATUS_ERROR,
                                      ErrorBody("Failed to connect to external API"))>>
                  /\ pc' = "done"
                  /\ effects' = effects \o <<"sanitize">>
                  /\ UNCHANGED <<call, upstreamReq>>
             ELSE /\ call' = [fn |-> "invokeBedrockAgent",
                             prompt |-> sanitizedPrompt.value,
                             sessionId |-> JsString(uuid)]
                  /\ upstreamReq' = InvokeAgentCommand(call'.prompt, call'.sessionId)
                  /\ effects' = effects \o <<"sanitize", "send">>
                  /\ pc' = "agent_send"
                  /\ UNCHANGED responses
  /\ UNCHANGED <<reply, delivered, completion, slots, awaited, ret, fnIn, fnOut>>

\* POST /query of the earlier server: the destructuring of req.body, validation
\* and the upstream send, the prompt handed to invokeBedrockAgent as it came.
\* That server registers no error handler.
PostQuery(body, uuid) ==
  LET prompt == Destructured(body, "prompt")
  IN
  /\ pc = "idle"
  /\ req' = [method |-> "POST", route |-> "/query", body |-> body, prompt |-> prompt]
  /\ IF body.type = "undefined"
     THEN /\ responses' = <<DefaultErrorHandler>>
          /\ pc' = "done"
          /\ UNCHANGED <<effects, call, upstreamReq>>
     ELSE IF ~Truthy(prompt)
     THEN /\ responses' = <<Response(STATUS_BAD_REQUEST, ErrorBody("Prompt is required"))>>
          /\ pc' = "done"
          /\ UNCHANGED <<effects, call, upstreamReq>>
     ELSE /\ call' = [fn |-> "invokeBedrockAgent",
                     prompt |-> prompt,
                     sessionId |-> JsString(uuid)]
          /\ upstreamReq' = InvokeAgentCommand(call'.prompt, call'.sessionId)
          /\ effects' = effects \o <<"send">>
          /\ pc' = "agent_send"
          /\ UNCHANGED responses
  /\ UNCHANGED <<reply, delivered, completion, slots, awaited, ret, fnIn, fnOut>>

\* "I need help."
DirectPrompt ==
  <<Run("I", 1), Run(" ", 1), Run("n", 1), Run("e", 2), Run("d", 1), Run(" ", 1),
    Run("h", 1), Run("e", 1), Run("l", 1), Run("p", 1), Run(".", 1)>>

\* agent.js run directly: invokeBedrockAgent("I need help.", "123"), no HTTP request
RunDirectly ==
  /\ pc = "idle"
  /\ req' = [method |-> "run", route |-> "agent.js"]
  /\ call' = [fn |-> "invokeBedrockAgent",
              prompt |-> JsString(DirectPrompt),
              sessionId |-> JsString(<<"1", "2", "3">>)]
  /\ upstreamReq' = InvokeAgentCommand(call'.prompt, call'.sessionId)
  /\ effects' = effects \o <<"send">>
  /\ pc' = "agent_send"
  /\ UNCHANGED <<responses, reply, delivered, completion, slots, awaited, ret, fnIn, fnOut>>

\* invokeBedrockAgent has ended with `result`: the /agent and /query handlers
\* answer, the run-directly block logs the result
AgentCallerContinues(result) ==
  /\ ret' = result
  /\ responses' = IF req.method = "POST"
                  THEN Append(responses, AgentHandlerAfterInvoke(result))
                  ELSE responses
  /\ pc' = "done"

\* invokeBedrockAgent fails: its catch block logs and the function returns undefined
AgentFail == AgentCallerContinues(AgentReturnedUndefined)

\* client.send(command) rejects
AgentSendRejects(err) ==
  /\ pc = "agent_send"
  /\ reply' = Threw(err)
  /\ AgentFail
  /\ UNCHANGED <<req, effects, call, upstreamReq, delivered, completion, slots, awaited, fnIn, fnOut>>

\* client.send(command) resolves with a reply that has no completion stream
AgentSendNoCompletion ==
  /\ pc = "agent_send"
  /\ reply' = Returned([completion |-> JsUndefined])
  /\ AgentFail
  /\ UNCHANGED <<req, effects, call, upstreamReq, delivered, completion, slots, awaited, fnIn, fnOut>>

\* client.send(command) resolves with a completion stream
AgentSendResolves ==
  /\ pc = "agent_send"
  /\ reply' = Returned([completion |-> [type |-> "stream"]])
  /\ completion' = <<>>
  /\ pc' = "agent_stream"
  /\ UNCHANGED <<req, responses, effects, call, upstreamReq, delivered, slots, awaited, ret, fnIn, fnOut>>

\* the stream yields a chunk event: one iteration of the for-await loop
AgentStreamChunk(bytes) ==
  /\ pc = "agent_stream"
  /\ Len(delivered) < MaxChunks
  /\ delivered' = Append(delivered, ChunkEvent(bytes))
  /\ completion' = Accumulate(completion, ChunkEvent(bytes).chunk)
  /\ UNCHANGED <<pc, req, responses, effects, call, upstreamReq, reply, slots, awaited, ret, fnIn, fnOut>>

\* the stream yields an event without a chunk: chunk.bytes throws a TypeError in
\* the body of the for-await loop, which closes the stream (return()) and awaits
\* that before the error reaches the catch block
AgentStreamTrace ==
  /\ pc = "agent_stream"
  /\ Len(delivered) < MaxChunks
  /\ delivered' = Append(delivered, TraceEvent)
  /\ pc' = "agent_return"
  /\ UNCHANGED <<req, responses, effects, call, upstreamReq, reply, completion, slots,
                 awaited, ret, fnIn, fnOut>>

\* the stream's return() settles: the TypeError reaches the catch block
AgentStreamReturnSettles ==
  /\ pc = "agent_return"
  /\ AgentFail
  /\ UNCHANGED <<req, effects, call, upstreamReq, reply, delivered, completion, slots,
                 awaited, fnIn, fnOut>>

\* the stream fails while it is consumed
AgentStreamRejects(err) ==
  /\ pc = "agent_stream"
  /\ delivered' = Append(delivered, Threw(err))
  /\ AgentFail
  /\ UNCHANGED <<req, effects, call, upstreamReq, reply, completion, slots, awaited, fnIn, fnOut>>

\* the stream ends: invokeBedrockAgent returns and the handler sends the completion
AgentStreamEnds ==
  /\ pc = "agent_stream"
  /\ AgentCallerContinues(AgentReturnedValue(AgentResult(call.sessionId, completion)))
  /\ UNCHANGED <<req, effects, call, upstreamReq, reply, delivered, completion, slots, awaited, fnIn, fnOut>>

----------------------------------------------------------------------------
(* Citation resolution: src/retrieval.js *)

\* the result of ^s3:\/\/([^\/]+)\/(.*)$ on a tokenised URI
S3UriMatches(tokens) ==
  /\ Len(tokens) >= 5
  /\ tokens[1] = "s3:"
  /\ tokens[2] = "/"
  /\ tokens[3] = "/"
  /\ tokens[4] # "/"
  /\ tokens[5] = "/"

\* the text of a tokenised URI: its tokens, joined
RECURSIVE UriText(_)
UriText(tokens) == IF tokens = <<>> THEN "" ELSE Head(tokens) \o UriText(Tail(tokens))

\* `${s3Uri}` in a template literal: the text of the value
TemplateText(v) ==
  CASE v.type = "string" -> UriText(v.value)
    [] v.type = "undefined" -> "undefined"
    [] v.type = "null" -> "null"
    [] OTHER -> "[object Object]"

\* parseS3Uri(s3Uri): bucket and key, or the error it throws
ParseS3Uri(s3Uri) ==
  IF ~IsString(s3Uri)
  THEN Threw(MkError("Error", "Input must be a string: " \o TemplateText(s3Uri),
                     JsUndefined))
  ELSE IF S3UriMatches(s3Uri.value)
       THEN LET bucket == s3Uri.value[4]
                key == SubSeq(s3Uri.value, 6, Len(s3Uri.value))
            IN IF key = <<>>
               THEN Threw(MkError("Error", "Invalid S3 URI: " \o TemplateText(s3Uri),
                                  JsUndefined))
               ELSE Returned([bucket |-> bucket, key |-> key])
       ELSE Threw(MkError("Error", "Invalid S3 URI: " \o TemplateText(s3Uri),
                          JsUndefined))

\* new GetObjectCommand({ Bucket: bucket, Key: key })
GetObjectCommand(bucket, key) == [Bucket |-> bucket, Key |-> key]

\* the URL the presigner issues for a command: it names the object and the expiry
SignedUrlOf(command) ==
  [type |-> "url", Bucket |-> command.Bucket, Key |-> command.Key,
   expiresIn |-> EXPIRES_IN]

\* { reference, signedUrl }: the reference nested instead of spread
EnrichNested(reference, signedUrl) ==
  [reference |-> reference, signedUrl |-> signedUrl]

\* { ...reference, signedUrl }
EnrichReference(reference, signedUrl) ==
  [f \in DOMAIN reference \cup {"signedUrl"} |->
     IF f = "signedUrl" THEN signedUrl ELSE reference[f]]

Reference(uri, content) ==
  [content |-> content, location |-> [s3Location |-> [uri |-> uri]]]

Citation(metadata, refs) == [metadata |-> metadata, retrievedReferences |-> refs]

\* the positions <<ci, ri>> of the references of a citation list
RefPositions(citations) ==
  UNION {{<<ci, ri>> : ri \in DOMAIN citations[ci].retrievedReferences} :
           ci \in DOMAIN citations}

\* the promise of one reference when the map callback has run up to its first
\* await: rejected by parseS3Uri, or pending on getSignedUrl
StartReference(reference) ==
  LET parsed == ParseS3Uri(reference.location.s3Location.uri)
  IN IF parsed.ok
     THEN [state |-> "pending",
           command |-> GetObjectCommand(parsed.value.bucket, parsed.value.key)]
     ELSE [state |-> "rejected", error |-> parsed.error]

StartCitations(citations) ==
  [p \in RefPositions(citations) |->
     StartReference(citations[p[1]].retrievedReferences[p[2]])]

Rejected(sl) == {p \in DOMAIN sl : sl[p].state = "rejected"}
Pending(sl) == {p \in DOMAIN sl : sl[p].state = "pending"}

\* the first position in citation order, then reference order
FirstOf(ps) ==
  CHOOSE p \in ps : \A q \in ps : p[1] < q[1] \/ (p[1] = q[1] /\ p[2] <= q[2])

\* Promise.all that skips the rejected promises and keeps the fulfilled values
PromiseAllSettledValues(citation, ci, sl) ==
  LET idx == {ri \in DOMAIN citation.retrievedReferences :
                sl[<<ci, ri>>].state = "fulfilled"}
      RECURSIVE Collect(_)
      Collect(ri) ==
        IF ri > Len(citation.retrievedReferences) THEN <<>>
        ELSE (IF ri \in idx
              THEN <<EnrichReference(citation.retrievedReferences[ri], sl[<<ci, ri>>].value)>>
              ELSE <<>>) \o Collect(ri + 1)
  IN Collect(1)

\* the value of Promise.all over the references of a citation, all fulfilled:
\* the enriched references at the positions of the originals
PromiseAllValues(citation, ci, sl) ==
  [ri \in DOMAIN citation.retrievedReferences |->
     EnrichReference(citation.retrievedReferences[ri], sl[<<ci, ri>>].value)]

\* parseCitation that resolves what it can and leaves the failed references out
ParseCitationBestEffort(citation, ci, sl) ==
  [metadata |-> citation.metadata,
   retrievedReferences |-> PromiseAllSettledValues(citation, ci, sl)]

\* parseCitation(citation) once its references have resolved
ParseCitation(citation, ci, sl) ==
  [metadata |-> citation.metadata,
   retrievedReferences |-> PromiseAllValues(citation, ci, sl)]

\* best-effort resolution: wait for every promise, keep the fulfilled ones
AwaitCitationsBestEffort(citations, sl) ==
  IF Pending(sl) # {}
  THEN [state |-> "pending"]
  ELSE [state |-> "fulfilled",
        value |-> [ci \in DOMAIN citations |->
                     ParseCitationBestEffort(citations[ci], ci, sl)]]

\* await Promise.all(citations.map(parseCitation)): rejected as soon as one
\* reference is rejected, fulfilled when every reference is
AwaitCitations(citations, sl) ==
  IF Rejected(sl) # {}
  THEN [state |-> "rejected", error |-> sl[FirstOf(Rejected(sl))].error]
  ELSE IF Pending(sl) # {}
       THEN [state |-> "pending"]
       ELSE [state |-> "fulfilled",
             value |-> [ci \in DOMAIN citations |->
                          ParseCitation(citations[ci], ci, sl)]]

----------------------------------------------------------------------------
(* Retrieval client: src/retrieval.js *)

NUMBER_OF_RESULTS == 5

\* the RetrieveAndGenerateCommand input: sessionId is added only when truthy
RetrieveAndGenerateCommand(prompt, sessionId) ==
  LET input == [command |-> "RetrieveAndGenerate",
                input |-> [text |-> prompt],
                numberOfResults |-> NUMBER_OF_RESULTS,
                overrideSearchType |-> "HYBRID"]
  IN IF Truthy(sessionId) THEN input @@ [sessionId |-> sessionId] ELSE input

\* return { sessionId: sessionId, response: result }
RetrievalResult(sessionId, response, citations) ==
  [sessionId |-> sessionId,
   response |-> [sessionId |-> response.sessionId,
                 response |-> [output |-> [text |-> response.output.text],
                               citations |-> citations,
                               guardrailAction |-> response.guardrailAction]]]

\* the catch block of invokeBedrockRetrieval: what the function throws
RetrievalCatch(error) ==
  IF error.type # "error"
  THEN TypeError("Cannot read properties of null (reading 'name')")
  ELSE IF error.name = "ServiceException"
       THEN MkError("Error", <<"AWS Bedrock API error", error.code, error.message>>,
                    JsUndefined)
       ELSE error

\* the catch block of the /retrieve handler:
\*   res.status(error?.code || 500).json(error?.message)
\* gives the responses the request gets.  A status that is no valid HTTP status
\* makes the catch block itself throw: the request is then left unanswered, or
\* answered by the global error handler, depending on the framework's version.
RetrieveHandlerCatch(error) ==
  LET code == IF error.type = "error" THEN error.code ELSE JsUndefined
      message == IF error.type = "error" THEN error.message ELSE JsUndefined
      status == IF Truthy(code) THEN code ELSE JsNumber(STATUS_ERROR)
  IN IF ValidStatus(status)
     THEN {<<Response(status.num, JsonBody(message))>>}
     ELSE {<<>>, <<GlobalErrorHandler>>}

\* the handler ends with the responses `out`
HandlerEnds(out) ==
  /\ responses' = responses \o out
  /\ pc' = IF out = <<>> THEN "unhandled" ELSE "done"

\* invokeBedrockRetrieval throws `error` to the /retrieve handler
RetrievalThrows(error, out) ==
  /\ ret' = Threw(error)
  /\ out \in RetrieveHandlerCatch(error)
  /\ HandlerEnds(out)

\* invokeBedrockRetrieval returns and the handler sends res.json(response)
RetrievalReturns(result) ==
  /\ ret' = Returned(result)
  /\ HandlerEnds(<<Response(STATUS_OK, JsonBody(result))>>)

\* POST /retrieve: the destructuring of req.body, validation, the two sanitizers
\* and the upstream send.  Destructuring an undefined req.body throws outside
\* the try block: the rejection goes to the global error handler.
PostRetrieve(body) ==
  LET message == Destructured(body, "message")
      session_id == Destructured(body, "session_id")
  IN
  /\ pc = "idle"
  /\ req' = [method |-> "POST", route |-> "/retrieve", body |-> body,
             message |-> message, session_id |-> session_id]
  /\ IF body.type = "undefined"
     THEN /\ HandlerEnds(<<GlobalErrorHandler>>)
          /\ UNCHANGED <<effects, call, upstreamReq>>
     ELSE IF ~Truthy(message)
     THEN /\ HandlerEnds(<<Response(STATUS_BAD_REQUEST, ErrorBody("Prompt is required"))>>)
          /\ UNCHANGED <<effects, call, upstreamReq>>
     ELSE LET sanitizedPrompt == Sanitize(message)
              sanitizedSessionId == SanitizeSessionID(session_id)
          IN IF ~sanitizedPrompt.ok
             THEN /\ \E out \in RetrieveHandlerCatch(sanitizedPrompt.error) : HandlerEnds(out)
                  /\ effects' = effects \o <<"sanitize">>
                  /\ UNCHANGED <<call, upstreamReq>>
             ELSE IF ~sanitizedSessionId.ok
                  THEN /\ \E out \in RetrieveHandlerCatch(sanitizedSessionId.error) :
                            HandlerEnds(out)
                       /\ effects' = effects \o <<"sanitize", "sanitizeSessionID">>
                       /\ UNCHANGED <<call, upstreamReq>>
                  ELSE /\ call' = [fn |-> "invokeBedrockRetrieval",
                                  prompt |-> sanitizedPrompt.value,
                                  sessionId |-> sanitizedSessionId.value]
                       /\ upstreamReq' = RetrieveAndGenerateCommand(
                                           call'.prompt, call'.sessionId)
                       /\ effects' = effects \o <<"sanitize", "sanitizeSessionID", "send">>
                       /\ pc' = "retr_send"
                       /\ UNCHANGED responses
  /\ UNCHANGED <<reply, delivered, completion, slots, awaited, ret, fnIn, fnOut>>

\* the upstream's reply to a RetrieveAndGenerateCommand: it keeps the session of
\* the request, or assigns `assigned` when the request carries none
UpstreamReply(command, assigned, citations) ==
  [sessionId |-> IF "sessionId" \in DOMAIN command THEN command.sessionId ELSE assigned,
   output |-> [text |-> "answer"],
   guardrailAction |-> "NONE",
   citations |-> citations]

\* client.send(command) rejects: the catch block rethrows to the handler
RetrSendRejects(err) ==
  /\ pc = "retr_send"
  /\ reply' = Threw(err)
  /\ \E out \in RetrieveHandlerCatch(RetrievalCatch(err)) :
       RetrievalThrows(RetrievalCatch(err), out)
  /\ UNCHANGED <<req, effects, call, upstreamReq, delivered, completion, slots, awaited, fnIn, fnOut>>

\* the TypeError of Promise.all(undefined)
NotIterable ==
  TypeError("undefined is not iterable (cannot read property Symbol(Symbol.iterator))")

\* client.send(command) resolves with a reply that has no citation list:
\* Promise.all(undefined) is a promise rejected with a TypeError, which the
\* function awaits
RetrSendNoCitations(assigned) ==
  /\ pc = "retr_send"
  /\ reply' = Returned(UpstreamReply(upstreamReq, assigned, JsUndefined))
  /\ awaited' = [state |-> "rejected", error |-> NotIterable]
  /\ LET error == RetrievalCatch(awaited'.error)
     IN \E out \in RetrieveHandlerCatch(error) : RetrievalThrows(error, out)
  /\ UNCHANGED <<req, effects, call, upstreamReq, delivered, completion, slots, fnIn, fnOut>>

\* the rest of invokeBedrockRetrieval once the awaited promise stands as
\* `promise`: with a fulfilment the function returns and the handler answers;
\* a rejection reaches the function's catch block and then the handler's in
\* later jobs, while the signed-URL requests of the other references still run
RetrievalContinues(response, promise) ==
  CASE promise.state = "fulfilled" ->
         RetrievalReturns(RetrievalResult(call.sessionId, response, promise.value))
    [] promise.state = "rejected" ->
         /\ pc' = "retr_catch"
         /\ UNCHANGED <<responses, ret>>
    [] OTHER ->
         /\ pc' = "retr_resolve"
         /\ UNCHANGED <<responses, ret>>

\* client.send(command) resolves with a citation list: every reference's map
\* callback runs up to its first await, then the function awaits them all
RetrSendResolves(assigned, citations) ==
  /\ pc = "retr_send"
  /\ reply' = Returned(UpstreamReply(upstreamReq, assigned,
                                     [type |-> "array", items |-> citations]))
  /\ slots' = StartCitations(citations)
  /\ awaited' = AwaitCitations(citations, slots')
  /\ effects' = effects \o [i \in 1..Cardinality(Pending(slots')) |-> "getSignedUrl"]
  /\ RetrievalContinues(reply'.value, awaited')
  /\ UNCHANGED <<req, call, upstreamReq, delivered, completion, fnIn, fnOut>>

\* a reference's promise settles as `settled`: the awaited promise follows while
\* it is pending, and a promise that has settled keeps its state
ReferenceSettles(p, settled) ==
  /\ slots' = [slots EXCEPT ![p] = settled]
  /\ IF pc = "retr_resolve"
     THEN /\ awaited' = AwaitCitations(reply.value.citations.items, slots')
          /\ RetrievalContinues(reply.value, awaited')
     ELSE UNCHANGED <<pc, responses, ret, awaited>>
  /\ UNCHANGED <<req, effects, call, upstreamReq, reply, delivered, completion, fnIn, fnOut>>

\* getSignedUrl of the reference at position p resolves
SignedUrlResolves(p) ==
  /\ p \in Pending(slots)
  /\ ReferenceSettles(p, [state |-> "fulfilled", command |-> slots[p].command,
                          value |-> SignedUrlOf(slots[p].command)])

\* getSignedUrl of the reference at position p rejects
SignedUrlRejects(p, err) ==
  /\ p \in Pending(slots)
  /\ ReferenceSettles(p, [state |-> "rejected", command |-> slots[p].command,
                          error |-> err])

\* the rejection of the awaited promise reaches the catch block of
\* invokeBedrockRetrieval, and what it throws the catch block of the handler
RetrievalCatches ==
  /\ pc = "retr_catch"
  /\ LET error == RetrievalCatch(awaited.error)
     IN \E out \in RetrieveHandlerCatch(error) : RetrievalThrows(error, out)
  /\ UNCHANGED <<req, effects, call, upstreamReq, reply, delivered, completion,
                 slots, awaited, fnIn, fnOut>>

----------------------------------------------------------------------------
(* The other handlers: src/unnamed/part_000, src/index.js *)

\* GET /health: res.status(200).send({ status: 'OK' })
GetHealth ==
  /\ pc = "idle"
  /\ req' = [method |-> "GET", route |-> "/health"]
  /\ responses' = <<Response(STATUS_OK, [kind |-> "json", status |-> "OK"])>>
  /\ pc' = "done"
  /\ UNCHANGED <<effects, call, upstreamReq, reply, delivered, completion, slots,
                 awaited, ret, fnIn, fnOut>>

\* requests no route of the server matches
Unmatched ==
  {[method |-> "GET", route |-> "/"],
   [method |-> "GET", route |-> "/agent"],
   [method |-> "POST", route |-> "/health"]}

\* the 404 handler: res.status(404).send({ error: 'Not Found' })
NotFound(request) ==
  /\ pc = "idle"
  /\ req' = request
  /\ responses' = <<Response(STATUS_NOT_FOUND, ErrorBody("Not Found"))>>
  /\ pc' = "done"
  /\ UNCHANGED <<effects, call, upstreamReq, reply, delivered, completion, slots,
                 awaited, ret, fnIn, fnOut>>

\* the request of client.chat.completions.create
ChatCompletionRequest(prompt) ==
  [command |-> "chat.completions.create",
   messages |-> <<[role |-> "user", content |-> prompt]>>,
   model |-> "gpt-3.5-turbo"]

\* POST /openai of the earliest server: the destructuring of req.body,
\* validation and the upstream call.  That server registers no error handler.
PostOpenai(body) ==
  LET prompt == Destructured(body, "prompt")
  IN
  /\ pc = "idle"
  /\ req' = [method |-> "POST", route |-> "/openai", body |-> body, prompt |-> prompt]
  /\ IF body.type = "undefined"
     THEN /\ responses' = <<DefaultErrorHandler>>
          /\ pc' = "done"
          /\ UNCHANGED <<effects, upstreamReq>>
     ELSE IF ~Truthy(prompt)
     THEN /\ responses' = <<Response(STATUS_BAD_REQUEST, ErrorBody("Prompt is required"))>>
          /\ pc' = "done"
          /\ UNCHANGED <<effects, upstreamReq>>
     ELSE /\ upstreamReq' = ChatCompletionRequest(prompt)
          /\ effects' = effects \o <<"create">>
          /\ pc' = "openai_send"
          /\ UNCHANGED responses
  /\ UNCHANGED <<call, reply, delivered, completion, slots, awaited, ret, fnIn, fnOut>>

\* what client.chat.completions.create can resolve with: nothing, a completion
\* without a data property, a completion with one
OpenaiResponses ==
  {JsNull,
   [type |-> "object", data |-> JsUndefined],
   [type |-> "object", data |-> [type |-> "object", choices |-> "answer"]]}

\* the /openai handler after the await: res.send(response.data), or the catch
\* block when reading .data throws
OpenaiHandlerAfterCreate(response) ==
  IF response.type # "object"
  THEN Response(STATUS_ERROR, ErrorBody("Failed to connect to external API"))
  ELSE IF response.data.type = "undefined"
       THEN Response(STATUS_OK, EmptyBody)
       ELSE Response(STATUS_OK, JsonBody(response.data))

\* client.chat.completions.create resolves
OpenaiResolves(response) ==
  /\ pc = "openai_send"
  /\ reply' = Returned(response)
  /\ responses' = Append(responses, OpenaiHandlerAfterCreate(response))
  /\ pc' = "done"
  /\ UNCHANGED <<req, effects, call, upstreamReq, delivered, completion, slots,
                 awaited, ret, fnIn, fnOut>>

\* client.chat.completions.create rejects
OpenaiRejects(err) ==
  /\ pc = "openai_send"
  /\ reply' = Threw(err)
  /\ responses' = Append(responses,
                         Response(STATUS_ERROR, ErrorBody("Failed to connect to external API")))
  /\ pc' = "done"
  /\ UNCHANGED <<req, effects, call, upstreamReq, delivered, completion, slots,
                 awaited, ret, fnIn, fnOut>>

\* the next request arrives: every request starts from a fresh handler
NextRequest ==
  /\ pc \in {"done", "unhandled"}
  /\ pc' = "idle"
  /\ req' = NoValue
  /\ responses' = <<>>
  /\ effects' = <<>>
  /\ call' = NoValue
  /\ upstreamReq' = NoValue
  /\ reply' = NoValue
  /\ delivered' = <<>>
  /\ completion' = <<>>
  /\ slots' = <<>>
  /\ awaited' = NoValue
  /\ ret' = NoValue
  /\ UNCHANGED <<fnIn, fnOut>>

----------------------------------------------------------------------------
(* The server *)

\* storage URIs of the references an upstream reply can hold
UriDoc1 == JsString(<<"s3:", "/", "/", "b1", "/", "k1">>)
UriDoc2 == JsString(<<"s3:", "/", "/", "b2", "/", "d", "/", "k2">>)
UriNotAUri == JsString(<<"not-a-uri">>)
UriNoKey == JsString(<<"s3:", "/", "/", "b1", "/">>)
UriNoBucket == JsString(<<"s3:", "/", "/", "/", "k1">>)
UriOtherScheme == JsString(<<"https:", "/", "/", "b1", "/", "k1">>)

\* what getSignedUrl can reject with
StorageErrors ==
  {MkError("CredentialsProviderError", "no credentials", JsUndefined),
   MkError("Error", "forbidden", JsNumber(403))}

\* the citation lists of the replies of the server's specification
SampleCitations ==
  {<<>>,
   <<Citation("m1", <<>>)>>,
   <<Citation("m1", <<Reference(UriDoc1, "c1"), Reference(UriDoc2, "c2")>>)>>,
   <<Citation("m1", <<Reference(UriDoc2, "c1")>>),
     Citation("m2", <<Reference(UriDoc1, "c2")>>)>>,
   <<Citation("m1", <<Reference(UriDoc1, "c1"), Reference(UriNotAUri, "c2")>>)>>,
   <<Citation("m1", <<Reference(UriNoKey, "c1")>>),
     Citation("m2", <<Reference(UriDoc1, "c2")>>)>>,
   <<Citation("m1", <<Reference(UriNoBucket, "c1"), Reference(UriOtherScheme, "c2")>>)>>,
   <<Citation("m1", <<Reference(JsUndefined, "c1")>>)>>}

Init ==
  /\ pc = "idle"
  /\ req = NoValue
  /\ responses = <<>>
  /\ effects = <<>>
  /\ call = NoValue
  /\ upstreamReq = NoValue
  /\ reply = NoValue
  /\ delivered = <<>>
  /\ completion = <<>>
  /\ slots = <<>>
  /\ awaited = NoValue
  /\ ret = NoValue
  /\ fnIn = NoValue
  /\ fnOut = <<>>

Next ==
  \/ \E body \in AgentBodies, uuid \in Uuids : PostAgent(body, uuid)
  \/ \E body \in PromptBodies, uuid \in Uuids : PostQuery(body, uuid)
  \/ RunDirectly
  \/ \E err \in UpstreamErrors : AgentSendRejects(err)
  \/ AgentSendNoCompletion
  \/ AgentSendResolves
  \/ \E bytes \in ChunkPayloads : AgentStreamChunk(bytes)
  \/ AgentStreamTrace
  \/ AgentStreamReturnSettles
  \/ \E err \in UpstreamErrors : AgentStreamRejects(err)
  \/ AgentStreamEnds
  \/ \E body \in RetrieveBodies : PostRetrieve(body)
  \/ \E err \in UpstreamErrors : RetrSendRejects(err)
  \/ \E assigned \in AssignedSessionIds : RetrSendNoCitations(assigned)
  \/ \E assigned \in AssignedSessionIds, citations \in SampleCitations :
       RetrSendResolves(assigned, citations)
  \/ \E p \in DOMAIN slots : SignedUrlResolves(p)
  \/ \E p \in DOMAIN slots, err \in StorageErrors : SignedUrlRejects(p, err)
  \/ RetrievalCatches
  \/ GetHealth
  \/ \E request \in Unmatched : NotFound(request)
  \/ \E body \in PromptBodies : PostOpenai(body)
  \/ \E response \in OpenaiResponses : OpenaiResolves(response)
  \/ \E err \in UpstreamErrors : OpenaiRejects(err)
  \/ NextRequest

Spec == Init /\ [][Next]_vars
----------------------------------------------------------------------------
(* The citation resolver under every bounded reply *)

Uris == {UriDoc1, UriDoc2, UriNotAUri, UriNoKey}

\* the sequences over S of length at most n
SeqsUpTo(S, n) == UNION {[1..k -> S] : k \in 0..n}

\* the reference lists of at most n references
ReferenceLists(n) ==
  {[i \in DOMAIN us |-> Reference(us[i], "c")] : us \in SeqsUpTo(Uris, n)}

\* the citation lists of at most k citations and n references in all; the
\* metadata of a citation names the citation, j being the number of citations
\* that precede it in the list
RECURSIVE CitationLists(_, _, _)
CitationLists(j, k, n) ==
  IF k = 0 THEN {<<>>}
  ELSE {<<>>} \cup
       UNION {{<<Citation([id |-> j + 1], refs)>> \o rest :
                 rest \in CitationLists(j + 1, k - 1, n - Len(refs))} :
                refs \in ReferenceLists(n)}

\* every citation list of at most MaxCitations citations and MaxRefs references
AllCitationLists == CitationLists(0, MaxCitations, MaxRefs)

NextCitations ==
  \/ PostRetrieve(RetrieveBody(JsString(MsgHello), JsString(<<>>)))
  \/ \E assigned \in AssignedSessionIds, citations \in AllCitationLists :
       RetrSendResolves(assigned, citations)
  \/ \E p \in DOMAIN slots : SignedUrlResolves(p)
  \/ \E p \in DOMAIN slots :
       SignedUrlRejects(p, MkError("CredentialsProviderError", "no credentials", JsUndefined))
  \/ RetrievalCatches
  \/ NextRequest

SpecCitations == Init /\ [][NextCitations]_vars

----------------------------------------------------------------------------
(* The sanitizer under every bounded prompt *)

PromptChars == {" ", "a", "A", "<", "&"}
RunLengths == {1, 2, MAX_PROMPT_LENGTH - 1}

\* a run-length encoded string is canonical: no two adjacent runs of one character
Canonical(s) == \A i \in 1..(Len(s) - 1) : s[i].c # s[i + 1].c

PromptStrings ==
  {s \in SeqsUpTo({Run(c, n) : c \in PromptChars, n \in RunLengths}, MaxRuns) :
     Canonical(s)}

InitSanitize ==
  /\ pc = "pure"
  /\ req = NoValue
  /\ responses = <<>>
  /\ effects = <<>>
  /\ call = NoValue
  /\ upstreamReq = NoValue
  /\ reply = NoValue
  /\ delivered = <<>>
  /\ completion = <<>>
  /\ slots = <<>>
  /\ awaited = NoValue
  /\ ret = NoValue
  /\ fnIn \in {JsString(s) : s \in PromptStrings}
  /\ fnOut = <<>>

\* sanitize(x)
ApplySanitize ==
  /\ pc = "pure"
  /\ fnOut = <<>>
  /\ fnOut' = <<Sanitize(fnIn)>>
  /\ UNCHANGED <<pc, req, responses, effects, call, upstreamReq, reply, delivered,
                 completion, slots, awaited, ret, fnIn>>

\* sanitize(sanitize(x)), when sanitize(x) returned
ApplySanitizeAgain ==
  /\ pc = "pure"
  /\ Len(fnOut) = 1
  /\ fnOut[1].ok
  /\ fnOut' = Append(fnOut, Sanitize(fnOut[1].value))
  /\ UNCHANGED <<pc, req, responses, effects, call, upstreamReq, reply, delivered,
                 completion, slots, awaited, ret, fnIn>>

NextSanitize == ApplySanitize \/ ApplySanitizeAgain

SpecSanitize == InitSanitize /\ [][NextSanitize]_vars

----------------------------------------------------------------------------
(* Properties *)

Answered == pc \in {"done", "unhandled"}
IsRetrieve ==
  pc # "idle" /\ pc # "pure" /\ req.method = "POST" /\ req.route = "/retrieve"
IsAgent ==
  pc # "idle" /\ pc # "pure" /\ req.method = "POST" /\ req.route = "/agent"

\* invokeBedrockRetrieval was called and has returned a result
RetrievalReturned == IsRetrieve /\ call # NoValue /\ ret # NoValue /\ ret.ok

\* invokeBedrockAgent was called and has returned a result
AgentReturned == IsAgent /\ call # NoValue /\ ret.type = "object"

IsChunkEvent(e) == "chunk" \in DOMAIN e /\ e.chunk.type = "chunk"

\* the upstream agent invocation failed: the send rejected, the reply has no
\* completion stream, or the stream did not yield a chunk
AgentUpstreamFailed ==
  /\ IsAgent
  /\ reply # NoValue
  /\ \/ ~reply.ok
     \/ reply.value.completion.type = "undefined"
     \/ \E i \in DOMAIN delivered : ~IsChunkEvent(delivered[i])

\* C1: when invokeRetrieval is called without a session identifier and the
\* upstream call succeeds, the upstream request carries no sessionId field and
\* the sessionId field of the returned result is the identifier the upstream
\* assigned in its reply.
C1_AssignedSessionIdReturned ==
  (RetrievalReturned /\ ~Truthy(call.sessionId))
    => /\ "sessionId" \notin DOMAIN upstreamReq
       /\ ret.value.sessionId = reply.value.sessionId

\* C2: a POST /retrieve with a non-empty message whose upstream call fails is
\* answered with the error code the upstream failure carries (a recognized
\* upstream-service error keeps its code), and with 500 when it carries none.
C2_UpstreamFailureStatus ==
  (IsRetrieve /\ Truthy(req.message) /\ reply # NoValue /\ ~reply.ok)
    => /\ Len(responses) <= 1
       /\ Len(responses) = 1 => LET err == reply.error
              carried == IF err.type = "error" THEN err.code ELSE JsUndefined
          IN CASE ValidStatus(carried) -> responses[1].status = carried.num
               [] ~Truthy(carried) -> responses[1].status = STATUS_ERROR
               [] OTHER -> TRUE

\* C3: for a POST /agent with a non-empty message, an upstream failure (the send
\* rejects, the reply has no completion stream, the stream fails while consumed)
\* is answered with status 500 and with nothing else, the answer being sent once
\* the failed stream has been closed, and 200 is sent only once the whole chunk
\* stream was consumed.
C3_AgentFailureIs500 ==
  (IsAgent /\ Truthy(req.message))
    => /\ AgentUpstreamFailed
            => \/ (pc = "agent_return" /\ responses = <<>>)
               \/ (pc = "done" /\ Len(responses) = 1
                      /\ responses[1].status = STATUS_ERROR)
       /\ \A i \in DOMAIN responses :
            responses[i].status = STATUS_OK
              => /\ ret.type = "object"
                 /\ reply.ok
                 /\ reply.value.completion.type = "stream"
                 /\ \A k \in DOMAIN delivered : IsChunkEvent(delivered[k])

\* an upstream failure in the middle of the stream was answered
C3_Witness ==
  /\ AgentUpstreamFailed
  /\ Len(delivered) = 2
  /\ IsChunkEvent(delivered[1])
  /\ ~IsChunkEvent(delivered[2])
  /\ Len(responses) = 1
  /\ responses[1].status = STATUS_ERROR

\* sanitize raises on the request's message: it is a string longer than 2048
\* characters after cleaning
Oversized(message) ==
  IsString(message) /\ StrLen(CleanPrompt(message.value)) > MAX_PROMPT_LENGTH

\* C4: a POST /agent or POST /retrieve whose message is longer than 2048
\* characters after cleaning is answered with a status in 400..499.
C4_OversizedIs4xx ==
  ((IsAgent \/ IsRetrieve) /\ Oversized(req.message))
    => /\ Len(responses) = 1
       /\ responses[1].status >= 400
       /\ responses[1].status <= 499

\* C5: a POST /agent or POST /retrieve whose body has no message (the message
\* is absent or empty, or the request has no body at all) is answered
\* 400 { error: "Prompt is required" } and neither a sanitizer, the upstream nor
\* the storage is called for it.
C5_MissingMessage ==
  ((IsAgent \/ IsRetrieve) /\ req.message \in {JsUndefined, JsString(<<>>)})
    => /\ pc = "done"
       /\ responses = <<Response(STATUS_BAD_REQUEST, ErrorBody("Prompt is required"))>>
       /\ effects = <<>>
       /\ call = NoValue
       /\ upstreamReq = NoValue
       /\ slots = <<>>

\* The part of C5 the handlers do keep: when req.body is an object without a
\* message, or with an empty one, the answer is the 400 and nothing is called;
\* and no request without a message reaches a sanitizer, the upstream or the
\* storage.
C5_MissingMessageInBody ==
  ((IsAgent \/ IsRetrieve) /\ req.message \in {JsUndefined, JsString(<<>>)})
    => /\ pc = "done"
       /\ req.body.type = "object"
            => responses = <<Response(STATUS_BAD_REQUEST, ErrorBody("Prompt is required"))>>
       /\ effects = <<>>
       /\ call = NoValue
       /\ upstreamReq = NoValue
       /\ slots = <<>>

\* the decoded text of the chunk events, concatenated in arrival order
RECURSIVE DecodedInOrder(_)
DecodedInOrder(events) ==
  IF events = <<>> THEN <<>>
  ELSE DecodeUtf8(Head(events).chunk.bytes) \o DecodedInOrder(Tail(events))

\* C6: invokeAgent returns only after the stream has ended, its completion is the
\* decoded text of the chunks c1..cn concatenated in arrival order, and its
\* sessionId is the one passed in.
C6_OrderedConcatenation ==
  /\ (IsAgent /\ pc \in {"agent_stream", "agent_return"}) => ret = NoValue
  /\ AgentReturned
       => /\ \A k \in DOMAIN delivered : IsChunkEvent(delivered[k])
          /\ ret.value.completion = DecodedInOrder(delivered)
          /\ ret.value.sessionId = call.sessionId
          /\ ret.value.sessionId = upstreamReq.sessionId

\* a result built from two chunks whose texts differ
C6_Witness ==
  /\ AgentReturned
  /\ Len(delivered) = 2
  /\ delivered[1].chunk.bytes = <<104>>
  /\ delivered[2].chunk.bytes = <<104, 195, 169>>
  /\ ret.value.completion = <<"h", "h", "U+00E9">>

\* a storage URI of the form s3://bucket/key with a bucket and a key
WellFormedUri(uri) ==
  /\ IsString(uri)
  /\ Len(uri.value) >= 6
  /\ uri.value[1] = "s3:"
  /\ uri.value[2] = "/" /\ uri.value[3] = "/"
  /\ uri.value[4] # "/"
  /\ uri.value[5] = "/"

\* the upstream replied with a citation list
CitationsReceived ==
  IsRetrieve /\ reply # NoValue /\ reply.ok /\ reply.value.citations.type = "array"

UriAt(citations, p) == citations[p[1]].retrievedReferences[p[2]].location.s3Location.uri

\* the references of the reply whose URI is malformed or whose signed-URL
\* request has failed
FailedReferences ==
  {p \in RefPositions(reply.value.citations.items) :
     \/ ~WellFormedUri(UriAt(reply.value.citations.items, p))
     \/ slots[p].state = "rejected"}

\* C7: citation resolution is all-or-nothing: once one reference of the reply has
\* a malformed URI or a failed signed-URL request, invokeRetrieval fails (the
\* failure is on its way to the catch block, or the function has thrown) and
\* never returns a result, and a result it returns holds every reference of
\* every citation of the reply.
C7_AllOrNothing ==
  CitationsReceived
    => /\ FailedReferences # {}
            => /\ \/ (pc = "retr_catch" /\ awaited.state = "rejected" /\ ret = NoValue)
                  \/ (pc # "retr_catch" /\ ret # NoValue /\ ~ret.ok)
               /\ \A i \in DOMAIN responses : responses[i].status # STATUS_OK
       /\ (ret # NoValue /\ ret.ok)
            => LET cs == reply.value.citations.items
                   out == ret.value.response.response.citations
               IN /\ Len(out) = Len(cs)
                  /\ \A ci \in DOMAIN cs :
                       Len(out[ci].retrievedReferences) = Len(cs[ci].retrievedReferences)

\* two references were resolved before the signed-URL request of a third failed
C7_Witness ==
  /\ CitationsReceived
  /\ Cardinality({p \in DOMAIN slots : slots[p].state = "fulfilled"}) = 2
  /\ Cardinality({p \in DOMAIN slots : slots[p].state = "rejected"}) = 1
  /\ \A p \in DOMAIN slots : WellFormedUri(UriAt(reply.value.citations.items, p))
  /\ ret # NoValue
  /\ ~ret.ok
  /\ pc = "done"

\* C8: for citations of well-formed references, in whatever order the signed-URL
\* requests complete, the result holds as many references as the reply, the i-th
\* one being the i-th reference of the reply plus a signedUrl issued for its own
\* bucket and key, and the citation's metadata is unchanged.
C8_ReferencesEnriched ==
  (CitationsReceived /\ ret # NoValue /\ ret.ok)
    => LET cs == reply.value.citations.items
           out == ret.value.response.response.citations
       IN /\ DOMAIN out = DOMAIN cs
          /\ \A ci \in DOMAIN cs :
               /\ out[ci].metadata = cs[ci].metadata
               /\ DOMAIN out[ci].retrievedReferences = DOMAIN cs[ci].retrievedReferences
               /\ \A ri \in DOMAIN cs[ci].retrievedReferences :
                    LET i == cs[ci].retrievedReferences[ri]
                        o == out[ci].retrievedReferences[ri]
                        uri == i.location.s3Location.uri.value
                    IN /\ DOMAIN o = DOMAIN i \cup {"signedUrl"}
                       /\ \A f \in DOMAIN i : o[f] = i[f]
                       /\ o.signedUrl.type = "url"
                       /\ o.signedUrl.Bucket = uri[4]
                       /\ o.signedUrl.Key = SubSeq(uri, 6, Len(uri))
                       /\ o.signedUrl.expiresIn = EXPIRES_IN

\* a result for two citations holding three references of two different objects
C8_Witness ==
  /\ CitationsReceived
  /\ ret # NoValue
  /\ ret.ok
  /\ Len(reply.value.citations.items) = 2
  /\ Len(reply.value.citations.items[1].retrievedReferences) = 2
  /\ Len(reply.value.citations.items[2].retrievedReferences) = 1
  /\ UriAt(reply.value.citations.items, <<1, 1>>) = UriDoc2
  /\ UriAt(reply.value.citations.items, <<1, 2>>) = UriDoc1
  /\ reply.value.citations.items[1].metadata # reply.value.citations.items[2].metadata
  /\ Len(responses) = 1
  /\ responses[1].status = STATUS_OK

\* sanitize was applied to x and, as it returned, to sanitize(x)
SanitizedTwice == pc = "pure" /\ Len(fnOut) = 2

\* a string that neither begins nor ends with white space
Trimmed(s) == s = <<>> \/ (s[1].c \notin WhiteSpace /\ s[Len(s)].c \notin WhiteSpace)

\* C9 as stated: for every x on which sanitize(x) does not raise,
\* sanitize(sanitize(x)) does not raise and equals sanitize(x).
C9_IdempotentOnEveryInput ==
  SanitizedTwice => (fnOut[2].ok /\ fnOut[2].value = fnOut[1].value)

\* C9: sanitize is idempotent on every x whose sanitize(x) neither begins nor ends
\* with white space, which is the case of every x without any of < > ; & |:
\* sanitize(sanitize(x)) does not raise and equals sanitize(x).
C9_IdempotentOnCleanText ==
  /\ (pc = "pure" /\ Len(fnOut) >= 1 /\ fnOut[1].ok
        /\ CharsOf(fnIn.value) \cap SpecialChars = {})
       => Trimmed(fnOut[1].value.value)
  /\ (SanitizedTwice /\ Trimmed(fnOut[1].value.value))
       => (fnOut[2].ok /\ fnOut[2].value = fnOut[1].value)

\* sanitize was applied twice to a text with blanks and capitals to clean
C9_Witness ==
  /\ SanitizedTwice
  /\ CharsOf(fnIn.value) = {" ", "A", "a"}
  /\ fnIn.value[1].c = " "
  /\ fnIn.value[1].n = 2
  /\ fnOut[1].value # fnIn
  /\ fnOut[2].ok

\* the characters of the class [0-9a-zA-Z._:-]
ValidSessionId(s) == \A i \in DOMAIN s : s[i] \in SessionIdChars

\* C10: sanitizeSessionIdentifier never raises on a session_id the /retrieve
\* handler passes to it (a string, the empty string, an absent session_id): it
\* returns a string of characters of [0-9A-Za-z._:-], the input itself when the
\* input has only such characters, the empty string for the empty string.
C10_SessionIdNeverRaises ==
  (IsRetrieve /\ \E i \in DOMAIN effects : effects[i] = "sanitizeSessionID")
    => /\ call # NoValue
       /\ IsString(call.sessionId)
       /\ ValidSessionId(call.sessionId.value)
       /\ (IsString(req.session_id) /\ ValidSessionId(req.session_id.value))
            => call.sessionId = req.session_id

----------------------------------------------------------------------------
\* The prompt a handler handed to invokeBedrockAgent or to invokeBedrockRetrieval.
PromptPassed == call.prompt

\* C11: in every reachable state, the prompt that the /agent or the /retrieve
\* handler passes to an upstream client is a non-empty string of at most 2048
\* characters that holds none of the raw characters < > ; & |.
C11_PromptInvariant ==
  ((IsAgent \/ IsRetrieve) /\ call # NoValue)
    => /\ IsString(PromptPassed)
       /\ PromptPassed.value # <<>>
       /\ StrLen(PromptPassed.value) <= MAX_PROMPT_LENGTH
       /\ CharsOf(PromptPassed.value) \cap SpecialChars = {}

\* The part of C11 the handlers do keep: the length limit and the removal of
\* the five characters.
C11_BoundedAndStripped ==
  ((IsAgent \/ IsRetrieve) /\ call # NoValue)
    => /\ IsString(PromptPassed)
       /\ StrLen(PromptPassed.value) <= MAX_PROMPT_LENGTH
       /\ CharsOf(PromptPassed.value) \cap SpecialChars = {}

----------------------------------------------------------------------------
\* The handler of the request has run to its end: every await it reached has
\* settled and no continuation of it is left to run.
HandlerEnded == pc \in {"done", "unhandled"}

\* C12: every POST /agent and POST /retrieve request is answered with exactly
\* one HTTP response, whatever the request body and whatever the upstream
\* outcome: no request ever has two responses, and a request whose handler has
\* run to its end, all of its upstream and storage calls settled, has one.
C12_ExactlyOneResponse ==
  (IsAgent \/ IsRetrieve)
    => /\ Len(responses) <= 1
       /\ HandlerEnded => Len(responses) = 1

\* The parts of C12 the handlers do keep: no request gets two responses, and a
\* POST /agent request whose handler has ended has exactly one.
C12_AgentAnsweredOnce ==
  /\ Len(responses) <= 1
  /\ (HandlerEnded /\ IsAgent) => Len(responses) = 1

============================================================================
